---- MODULE Spec2Model ----
(***************************************************************************)
(* State-machine model of norabelrose/imitation:                           *)
(*   - EpochOrBatchIteratorWithProgress (src/imitation/algorithms/bc.py)   *)
(*   - HierarchicalLogger               (src/imitation/util/logger.py)     *)
(***************************************************************************)
EXTENDS Integers, Sequences, FiniteSets, TLC

(* ------------------------------ bounds --------------------------------- *)
\* largest n_epochs tried
MaxEpochs == 2
\* largest n_batches tried
MaxBatches == 3
\* largest number of batches the data loader produces in one pass
MaxPassLen == 2
\* largest len(batch["obs"]) the data loader produces
MaxBatchSize == 3

\* largest number of values folded into one running mean between two dumps
MaxCount == 3
\* largest number of scope loggers made by accumulate_means
MaxLoggers == 2
\* largest step given to dump()
MaxStep == 1

(* logger.py 13-17: the levels *)
DEBUG == 10
INFO == 20
WARN == 30
ERROR == 40
DISABLED == 50

(* Optional[int]: None is the empty tuple, a value n is <<n>> *)
None == <<>>
Some(n) == <<n>>
IsNone(x) == x = <<>>
Val(x) == x[1]

EpochArgs == {None} \cup {Some(n) : n \in -1..MaxEpochs}
BatchArgs == {None} \cup {Some(n) : n \in -1..MaxBatches}
PassLens == 0..MaxPassLen
\* an empty batch, the smallest batch and the largest one
BatchSizes == {0, 1, MaxBatchSize}

VARIABLES
    constructed,        \* "no" | "yes" | "ValueError": result of __init__
    args,               \* the (n_epochs, n_batches) given to __init__
    self,               \* the iterator's attributes (bc.py 106-120)
    pc,                 \* position of the generator made by __iter__
    samples_so_far,     \* __iter__ local
    epoch_num,          \* __iter__ local
    batch_num,          \* __iter__ local
    got_data_on_epoch,  \* __iter__ local
    display,            \* __iter__ local: the tqdm / _NoopTqdm object
    passLen,            \* data loader: number of batches of the current pass
    pulled,             \* data loader: batches already produced in this pass
    yielded,            \* history: the (len(batch["obs"]), stats) pairs yielded
    epochEndCalls,      \* history: keyword arguments of each on_epoch_end call
    batchEndCalls,      \* history: number of on_batch_end calls
    passes,             \* history: length of every pass the loader completed
    outcome,            \* how the generator ended
    reiterated          \* history: __iter__ was called before on this instance

iterVars == <<constructed, args, self, pc, samples_so_far, epoch_num, batch_num,
              got_data_on_epoch, display, passLen, pulled, yielded,
              epochEndCalls, batchEndCalls, passes, outcome, reiterated>>

VARIABLES
    default_logger,     \* the root sb_logger.Logger
    loggers,            \* the scope loggers made so far, in order of creation
    cached_loggers,     \* self._cached_loggers: scope name -> index in loggers
    current_logger,     \* self.current_logger: 0 for None, else index in loggers
    subdir,             \* self._subdir: None or Some(scope name)
    raised,             \* the exception raised by the last call, "none" if none
    out,                \* what the last call wrote to output formats, if any
    closed,             \* close() was called on the HierarchicalLogger
    rootHist            \* history: per root key, sum and number of the values
                        \* given to record_mean since the root's tables were
                        \* last cleared, and whether only record_mean wrote it

logVars == <<default_logger, loggers, cached_loggers, current_logger, subdir,
             raised, out, closed, rootHist>>

VARIABLES
    trace,              \* history: the calls made on the HierarchicalLogger by
                        \* a scripted caller, in order (empty elsewhere)
    tensorboard_step,   \* BC.tensorboard_step
    train,              \* BC.train: position, arguments and locals of the call
    trainHist           \* history: number of train() calls, tensorboard_step
                        \* when the loop of the current call began, and the
                        \* (step, batch_num) of each dump() of the current call

trainVars == <<tensorboard_step, train, trainHist>>

extVars == <<trace, trainVars>>

vars == <<iterVars, logVars, extVars>>

(* --------------------- EpochOrBatchIteratorWithProgress ---------------- *)

\* bc.py 105-112 with the test of n_batches dropped from the first branch
UseEpochsAcceptBoth(n_epochs, n_batches) ==
    IF ~IsNone(n_epochs) THEN "epochs"
    ELSE IF ~IsNone(n_batches) THEN "batches"
    ELSE "ValueError"

\* bc.py 105-112: which bound is used, or the ValueError
UseEpochs(n_epochs, n_batches) ==
    IF ~IsNone(n_epochs) /\ IsNone(n_batches) THEN "epochs"
    ELSE IF IsNone(n_epochs) /\ ~IsNone(n_batches) THEN "batches"
    ELSE "ValueError"

NoArgs == [n_epochs |-> None, n_batches |-> None]

NoSelf == [use_epochs |-> FALSE, n_epochs |-> None, n_batches |-> None,
           on_epoch_end |-> FALSE, on_batch_end |-> FALSE,
           progress_bar_visible |-> FALSE]

NoDisplay == [kind |-> "none", total |-> None, n |-> 0, desc |-> <<>>,
              closeCalls |-> 0, late |-> FALSE]

NoOutcome == [type |-> "none", msg |-> <<>>]

IterInit ==
    /\ constructed = "no"
    /\ args = NoArgs
    /\ self = NoSelf
    /\ pc = "idle"
    /\ samples_so_far = 0
    /\ epoch_num = 0
    /\ batch_num = 0
    /\ got_data_on_epoch = FALSE
    /\ display = NoDisplay
    /\ passLen = 0
    /\ pulled = 0
    /\ yielded = <<>>
    /\ epochEndCalls = <<>>
    /\ batchEndCalls = 0
    /\ passes = <<>>
    /\ outcome = NoOutcome
    /\ reiterated = FALSE

\* bc.py 76-120: __init__
Construct(n_epochs, n_batches, on_epoch_end, on_batch_end, visible) ==
    /\ constructed = "no"
    /\ args' = [n_epochs |-> n_epochs, n_batches |-> n_batches]
    /\ IF UseEpochs(n_epochs, n_batches) = "ValueError"
       THEN /\ constructed' = "ValueError"
            /\ self' = self
       ELSE /\ constructed' = "yes"
            /\ self' = [use_epochs |-> UseEpochs(n_epochs, n_batches) = "epochs",
                        n_epochs |-> n_epochs, n_batches |-> n_batches,
                        on_epoch_end |-> on_epoch_end,
                        on_batch_end |-> on_batch_end,
                        progress_bar_visible |-> visible]
    /\ UNCHANGED <<pc, samples_so_far, epoch_num, batch_num, got_data_on_epoch,
                   display, passLen, pulled, yielded, epochEndCalls,
                   batchEndCalls, passes, outcome, reiterated>>
    /\ UNCHANGED logVars

\* bc.py 130-137: the suffixes of the description
BatchSuffix ==
    IF self.progress_bar_visible /\ ~self.use_epochs THEN self.n_batches ELSE None

EpochSuffix ==
    IF self.progress_bar_visible /\ self.use_epochs THEN self.n_epochs ELSE None

\* bc.py 131-139: the display object made at the start of __iter__
NewDisplay ==
    IF self.progress_bar_visible
    THEN [kind |-> "tqdm",
          total |-> IF self.use_epochs THEN self.n_epochs ELSE self.n_batches,
          n |-> 0, desc |-> <<>>, closeCalls |-> 0, late |-> FALSE]
    ELSE [kind |-> "noop", total |-> None, n |-> 0, desc |-> <<>>,
          closeCalls |-> 0, late |-> FALSE]

\* bc.py 141-145 (and _NoopTqdm.set_description, 63-64): update_desc()
\* "late" records a call made after close()
UpdateDesc(d, bn, en) ==
    IF d.kind = "tqdm"
    THEN [d EXCEPT !.desc = <<bn, BatchSuffix, en, EpochSuffix>>,
                   !.late = @ \/ d.closeCalls > 0]
    ELSE [d EXCEPT !.late = @ \/ d.closeCalls > 0]

\* display.update(1) (and _NoopTqdm.update, 66-67)
DisplayUpdate(d) ==
    IF d.kind = "tqdm"
    THEN [d EXCEPT !.n = @ + 1, !.late = @ \/ d.closeCalls > 0]
    ELSE [d EXCEPT !.late = @ \/ d.closeCalls > 0]

\* the finally clause with the close() left out
FinallyNoClose(d) == d

\* bc.py 191-193: the finally clause
Finally(d) == [d EXCEPT !.closeCalls = @ + 1]

\* the generator ends (return or raise): the finally clause runs
End(d, type, msg) ==
    /\ display' = Finally(d)
    /\ pc' = "ended"
    /\ outcome' = [type |-> type, msg |-> msg]

\* bc.py 122-139 with the three counters kept from the previous __iter__ call
StartIterNoReset ==
    /\ constructed = "yes"
    /\ pc \in {"idle", "ended"}
    /\ reiterated' = (pc = "ended")
    /\ display' = NewDisplay
    /\ pc' = "pass_start"
    /\ yielded' = <<>>
    /\ epochEndCalls' = <<>>
    /\ batchEndCalls' = 0
    /\ passes' = <<>>
    /\ outcome' = NoOutcome
    /\ UNCHANGED <<constructed, args, self, samples_so_far, epoch_num, batch_num,
                   got_data_on_epoch, passLen, pulled>>
    /\ UNCHANGED logVars

\* bc.py 122-139: __iter__ is called and the generator body starts
StartIter ==
    /\ constructed = "yes"
    /\ pc \in {"idle", "ended"}
    /\ reiterated' = (pc = "ended")
    /\ samples_so_far' = 0
    /\ epoch_num' = 0
    /\ batch_num' = 0
    /\ display' = NewDisplay
    /\ pc' = "pass_start"
    /\ yielded' = <<>>
    /\ epochEndCalls' = <<>>
    /\ batchEndCalls' = 0
    /\ passes' = <<>>
    /\ outcome' = NoOutcome
    /\ UNCHANGED <<constructed, args, self, got_data_on_epoch, passLen, pulled>>
    /\ UNCHANGED logVars

\* bc.py 148-152: top of the while loop; the loader begins a pass of len batches
PassStart(len) ==
    /\ pc = "pass_start"
    /\ display' = UpdateDesc(display, batch_num, epoch_num)
    /\ got_data_on_epoch' = FALSE
    /\ passLen' = len
    /\ pulled' = 0
    /\ pc' = "pull"
    /\ UNCHANGED <<constructed, args, self, samples_so_far, epoch_num, batch_num,
                   yielded, epochEndCalls, batchEndCalls, passes, outcome, reiterated>>
    /\ UNCHANGED logVars

\* bc.py 157 with the running total replaced by the last batch's size
NextSamplesNoSum(samples, batch_size) == batch_size

\* bc.py 157: samples_so_far += batch_size
NextSamples(samples, batch_size) == samples + batch_size

\* bc.py 158-162 with batch_num counted per pass instead of per iteration
StatsPerPass(en, bn, samples) ==
    [epoch_num |-> en, batch_num |-> pulled + 1, samples_so_far |-> samples]

\* bc.py 158-162: the stats dict yielded with the batch
Stats(en, bn, samples) ==
    [epoch_num |-> en, batch_num |-> bn, samples_so_far |-> samples]

\* bc.py 170 with > for >=
BatchBoundReachedLate(bn) == bn > Val(self.n_batches)

\* bc.py 170 with == for >=
BatchBoundReachedExact(bn) == bn = Val(self.n_batches)

\* bc.py 170: batch_num >= self.n_batches
BatchBoundReached(bn) == bn >= Val(self.n_batches)

\* bc.py 188 with > for >=
EpochBoundReachedLate(en) == en > Val(self.n_epochs)

\* bc.py 188: epoch_num >= self.n_epochs
EpochBoundReached(en) == en >= Val(self.n_epochs)

\* bc.py 172 with the test left out
NoDataNever(got) == FALSE

\* bc.py 172: not got_data_on_epoch
NoData(got) == ~got

\* bc.py 152-163: the loader produces a batch with len(batch["obs"]) = size;
\* the generator counts it, asserts it is non-empty and yields it
PullBatch(size) ==
    /\ pc = "pull"
    /\ pulled < passLen
    /\ pulled' = pulled + 1
    /\ got_data_on_epoch' = TRUE
    /\ batch_num' = batch_num + 1
    /\ IF size > 0
       THEN /\ samples_so_far' = NextSamples(samples_so_far, size)
            /\ yielded' = Append(yielded,
                   [size |-> size,
                    stats |-> Stats(epoch_num, batch_num', samples_so_far')])
            /\ pc' = "yielded"
            /\ UNCHANGED <<display, outcome>>
       ELSE /\ End(display, "AssertionError", <<>>)
            /\ UNCHANGED <<samples_so_far, yielded>>
    /\ UNCHANGED <<constructed, args, self, epoch_num, passLen, epochEndCalls,
                   batchEndCalls, passes, reiterated>>
    /\ UNCHANGED logVars

\* bc.py 152: the loader's pass is over, the for loop ends
PullExhausted ==
    /\ pc = "pull"
    /\ pulled = passLen
    /\ passes' = Append(passes, passLen)
    /\ pc' = "pass_end"
    /\ UNCHANGED <<constructed, args, self, samples_so_far, epoch_num, batch_num,
                   got_data_on_epoch, display, passLen, pulled, yielded,
                   epochEndCalls, batchEndCalls, outcome, reiterated>>
    /\ UNCHANGED logVars

\* bc.py 152: the data loader raises instead of producing a batch
LoaderRaises ==
    /\ pc = "pull"
    /\ End(display, "LoaderError", <<>>)
    /\ UNCHANGED <<constructed, args, self, samples_so_far, epoch_num, batch_num,
                   got_data_on_epoch, passLen, pulled, yielded, epochEndCalls,
                   batchEndCalls, passes, reiterated>>
    /\ UNCHANGED logVars

\* bc.py 163-171 with the batch bound tested before on_batch_end is called
AfterYieldBoundFirst(raises) ==
    /\ pc = "yielded"
    /\ LET last == ~self.use_epochs /\ BatchBoundReached(batch_num)
           d == DisplayUpdate(UpdateDesc(display, batch_num, epoch_num))
       IN  /\ batchEndCalls' = IF self.on_batch_end /\ ~last
                               THEN batchEndCalls + 1
                               ELSE batchEndCalls
           /\ IF last
              THEN End(d, "return", <<>>)
              ELSE IF self.on_batch_end /\ raises
              THEN End(display, "CallbackError", <<"on_batch_end">>)
              ELSE IF ~self.use_epochs
              THEN /\ display' = d
                   /\ pc' = "pull"
                   /\ UNCHANGED outcome
              ELSE /\ pc' = "pull"
                   /\ UNCHANGED <<display, outcome>>
    /\ UNCHANGED <<constructed, args, self, samples_so_far, epoch_num, batch_num,
                   got_data_on_epoch, passLen, pulled, yielded, epochEndCalls,
                   passes, reiterated>>
    /\ UNCHANGED logVars

\* bc.py 163-171: the consumer asks for the next pair; the generator resumes
\* after the yield: on_batch_end (which may raise), then the batch bound
AfterYield(raises) ==
    /\ pc = "yielded"
    /\ batchEndCalls' = IF self.on_batch_end THEN batchEndCalls + 1
                        ELSE batchEndCalls
    /\ IF self.on_batch_end /\ raises
       THEN End(display, "CallbackError", <<"on_batch_end">>)
       ELSE IF ~self.use_epochs
       THEN LET d == DisplayUpdate(UpdateDesc(display, batch_num, epoch_num))
            IN  IF BatchBoundReached(batch_num)
                THEN End(d, "return", <<>>)
                ELSE /\ display' = d
                     /\ pc' = "pull"
                     /\ UNCHANGED outcome
       ELSE /\ pc' = "pull"
            /\ UNCHANGED <<display, outcome>>
    /\ UNCHANGED <<constructed, args, self, samples_so_far, epoch_num, batch_num,
                   got_data_on_epoch, passLen, pulled, yielded, epochEndCalls,
                   passes, reiterated>>
    /\ UNCHANGED logVars

\* bc.py 163, 191-193: the consumer closes the generator while it is suspended
\* at the yield (GeneratorExit is raised there)
Close ==
    /\ pc = "yielded"
    /\ End(display, "GeneratorExit", <<>>)
    /\ UNCHANGED <<constructed, args, self, samples_so_far, epoch_num, batch_num,
                   got_data_on_epoch, passLen, pulled, yielded, epochEndCalls,
                   batchEndCalls, passes, reiterated>>
    /\ UNCHANGED logVars

\* bc.py 178-182 with on_epoch_end called before epoch_num += 1
EpochEndKwargsBeforeIncrement(samples, en, bn) ==
    [samples_so_far |-> samples, epoch_num |-> en - 1, batch_num |-> bn]

\* bc.py 180-182: the keyword arguments on_epoch_end is called with
EpochEndKwargs(samples, en, bn) ==
    [samples_so_far |-> samples, epoch_num |-> en, batch_num |-> bn]

\* bc.py 172-189: after the for loop
PassEnd(raises) ==
    /\ pc = "pass_end"
    /\ IF NoData(got_data_on_epoch)
       THEN /\ End(display, "AssertionError", <<"no data", batch_num, epoch_num>>)
            /\ UNCHANGED <<epoch_num, epochEndCalls>>
       ELSE /\ epoch_num' = epoch_num + 1
            /\ epochEndCalls' =
                 IF self.on_epoch_end
                 THEN Append(epochEndCalls,
                             EpochEndKwargs(samples_so_far, epoch_num',
                                            batch_num))
                 ELSE epochEndCalls
            /\ IF self.on_epoch_end /\ raises
               THEN End(display, "CallbackError", <<"on_epoch_end">>)
               ELSE IF self.use_epochs
               THEN LET d == DisplayUpdate(UpdateDesc(display, batch_num, epoch_num'))
                    IN  IF EpochBoundReached(epoch_num')
                        THEN End(d, "return", <<>>)
                        ELSE /\ display' = d
                             /\ pc' = "pass_start"
                             /\ UNCHANGED outcome
               ELSE /\ pc' = "pass_start"
                    /\ UNCHANGED <<display, outcome>>
    /\ UNCHANGED <<constructed, args, self, samples_so_far, batch_num,
                   got_data_on_epoch, passLen, pulled, yielded, batchEndCalls,
                   passes, reiterated>>
    /\ UNCHANGED logVars

IterNext ==
    \/ \E ne \in EpochArgs, nb \in BatchArgs, oe \in BOOLEAN, ob \in BOOLEAN,
          vis \in BOOLEAN : Construct(ne, nb, oe, ob, vis) /\ UNCHANGED extVars
    \/ StartIter /\ UNCHANGED extVars
    \/ \E len \in PassLens : PassStart(len) /\ UNCHANGED extVars
    \/ \E size \in BatchSizes : PullBatch(size) /\ UNCHANGED extVars
    \/ PullExhausted /\ UNCHANGED extVars
    \/ LoaderRaises /\ UNCHANGED extVars
    \/ \E raises \in BOOLEAN : AfterYield(raises) /\ UNCHANGED extVars
    \/ Close /\ UNCHANGED extVars
    \/ \E raises \in BOOLEAN : PassEnd(raises) /\ UNCHANGED extVars


(* --------------------------- HierarchicalLogger ------------------------ *)

Keys == {<<"k">>}
\* the values of the example of the running mean
MeanValues == {1, 3, 5}
Subdirs == {"x", "y"}
\* types.AnyPath: the scope is named by a str or by a path object
StrArgs == [form : {"str"}, name : Subdirs]
Steps == 0..MaxStep
Levels == {INFO, DISABLED}

EmptyTable == <<>>

\* d[k] = v
Put(d, k, v) == [x \in DOMAIN d \cup {k} |-> IF x = k THEN v ELSE d[x]]

\* defaultdict: d[k], or the default when k is missing
Get(d, k, default) == IF k \in DOMAIN d THEN d[k] ELSE default

RECURSIVE Gcd(_, _)
Gcd(a, b) == IF b = 0 THEN a ELSE Gcd(b, a % b)

\* a float, as the fraction <<numerator, denominator>> in lowest terms
Frac(n, d) == LET g == Gcd(n, d) IN <<n \div g, d \div g>>

\* sb_logger.Logger(folder, output_formats)
NewLogger(folder) ==
    [folder |-> folder, name_to_value |-> EmptyTable,
     name_to_count |-> EmptyTable, name_to_excluded |-> EmptyTable,
     level |-> INFO, closeCalls |-> 0]

\* sb_logger.Logger.record: overwrite the latest value under key
SbRecord(L, key, val, exclude) ==
    [L EXCEPT !.name_to_value = Put(@, key, Frac(val, 1)),
              !.name_to_excluded = Put(@, key, exclude)]

\* sb_logger.Logger.record_mean: running mean over the calls since the tables
\* were cleared: old_val * count / (count + 1) + value / (count + 1)
SbRecordMean(L, key, val, exclude) ==
    LET old == Get(L.name_to_value, key, Frac(0, 1))
        count == Get(L.name_to_count, key, 0)
    IN  [L EXCEPT !.name_to_value =
                      Put(@, key, Frac(old[1] * count + val * old[2],
                                       old[2] * (count + 1))),
                  !.name_to_count = Put(@, key, count + 1),
                  !.name_to_excluded = Put(@, key, exclude)]

\* sb_logger.Logger.close
SbClose(L) == [L EXCEPT !.closeCalls = @ + 1]

\* os.path.join with the scope name left out of the key
JoinNoSubdir(a, b, c) == a \o c

\* os.path.join of relative parts
Join(a, b, c) == a \o b \o c

\* types.path_to_str
PathToStr(arg) == arg.name

NoOut == [logger |-> -1, kv |-> EmptyTable, excluded |-> EmptyTable,
          step |-> 0, hist |-> EmptyTable, follows |-> FALSE]

LogInit ==
    /\ default_logger = NewLogger(<<>>)
    /\ loggers = <<>>
    /\ cached_loggers = EmptyTable
    /\ current_logger = 0
    /\ subdir = None
    /\ raised = "none"
    /\ out = NoOut
    /\ closed = FALSE
    /\ rootHist = EmptyTable

NoHist == [sum |-> 0, n |-> 0, pure |-> TRUE]

\* history: record_mean(key, val) reached the root
HistMean(h, key, val) ==
    Put(h, key, [Get(h, key, NoHist) EXCEPT !.sum = @ + val, !.n = @ + 1])

\* history: record(key, val) reached the root
HistRecord(h, key) ==
    Put(h, key, [Get(h, key, NoHist) EXCEPT !.pure = FALSE])

\* logger.py 108-109 with the test left out
NestedNever == FALSE

\* logger.py 108: self.current_logger is not None
Nested == current_logger # 0

\* logger.py 111 with the cache never consulted
CacheHitNever(arg) == FALSE

\* logger.py 111: subdir in self._cached_loggers (the argument as given: a path
\* object is never equal to a str key)
CacheHit(arg) == arg.form = "str" /\ arg.name \in DOMAIN cached_loggers

\* logger.py 74-124: entering the accumulate_means context
Enter(arg) ==
    /\ ~closed
    /\ out' = NoOut
    /\ IF Nested
       THEN /\ raised' = "RuntimeError"
            /\ UNCHANGED <<loggers, cached_loggers, current_logger, subdir>>
       ELSE /\ raised' = "none"
            /\ IF CacheHit(arg)
               THEN /\ current_logger' = cached_loggers[arg.name]
                    /\ subdir' = Some(arg.name)
                    /\ UNCHANGED <<loggers, cached_loggers>>
               ELSE /\ Len(loggers) < MaxLoggers
                    /\ loggers' = Append(loggers,
                                         NewLogger(<<"raw", PathToStr(arg)>>))
                    /\ cached_loggers' =
                         Put(cached_loggers, PathToStr(arg), Len(loggers) + 1)
                    /\ current_logger' = Len(loggers) + 1
                    /\ subdir' = Some(PathToStr(arg))
    /\ UNCHANGED <<default_logger, closed, rootHist>>
    /\ UNCHANGED iterVars

\* logger.py 125-127 with self._subdir = None left out
ExitKeepSubdir ==
    /\ ~closed
    /\ current_logger # 0
    /\ current_logger' = 0
    /\ raised' = "none"
    /\ out' = NoOut
    /\ UNCHANGED <<default_logger, loggers, cached_loggers, subdir, closed,
                   rootHist>>
    /\ UNCHANGED iterVars

\* logger.py 125-127: leaving the context, normally or by an exception
Exit ==
    /\ ~closed
    /\ current_logger # 0
    /\ current_logger' = 0
    /\ subdir' = None
    /\ raised' = "none"
    /\ out' = NoOut
    /\ UNCHANGED <<default_logger, loggers, cached_loggers, closed, rootHist>>
    /\ UNCHANGED iterVars

\* logger.py 129-138 with line 136 calling default_logger.record
RecordLatestAtRoot(key, val, exclude) ==
    /\ ~closed
    /\ raised' = "none"
    /\ out' = NoOut
    /\ IF current_logger # 0
       THEN LET raw_key == Join(<<"raw">>, subdir, key)
                mean_key == Join(<<"mean">>, subdir, key)
            IN  /\ loggers' = [loggers EXCEPT ![current_logger] =
                                  SbRecord(@, raw_key, val, exclude)]
                /\ default_logger' =
                       SbRecord(default_logger, mean_key, val, exclude)
                /\ rootHist' = HistRecord(rootHist, mean_key)
       ELSE /\ default_logger' = SbRecord(default_logger, key, val, exclude)
            /\ rootHist' = HistRecord(rootHist, key)
            /\ UNCHANGED loggers
    /\ UNCHANGED <<cached_loggers, current_logger, subdir, closed>>
    /\ UNCHANGED iterVars

\* logger.py 129-138: record
Record(key, val, exclude) ==
    /\ ~closed
    /\ raised' = "none"
    /\ out' = NoOut
    /\ IF current_logger # 0
       THEN LET raw_key == Join(<<"raw">>, subdir, key)
                mean_key == Join(<<"mean">>, subdir, key)
            IN  /\ Get(default_logger.name_to_count, mean_key, 0) < MaxCount
                /\ loggers' = [loggers EXCEPT ![current_logger] =
                                  SbRecord(@, raw_key, val, exclude)]
                /\ default_logger' =
                       SbRecordMean(default_logger, mean_key, val, exclude)
                /\ rootHist' = HistMean(rootHist, mean_key, val)
       ELSE /\ default_logger' = SbRecord(default_logger, key, val, exclude)
            /\ rootHist' = HistRecord(rootHist, key)
            /\ UNCHANGED loggers
    /\ UNCHANGED <<cached_loggers, current_logger, subdir, closed>>
    /\ UNCHANGED iterVars

\* logger.py 180-181: record_mean
RecordMean(key, val, exclude) ==
    /\ ~closed
    /\ Get(default_logger.name_to_count, key, 0) < MaxCount
    /\ raised' = "none"
    /\ out' = NoOut
    /\ default_logger' = SbRecordMean(default_logger, key, val, exclude)
    /\ rootHist' = HistMean(rootHist, key, val)
    /\ UNCHANGED <<loggers, cached_loggers, current_logger, subdir, closed>>
    /\ UNCHANGED iterVars

\* logger.py 155-165: what the output formats of logger number id are given
\* (hist and follows are history: the root's record_mean inputs, and whether
\* the call before was a dump too)
Written(id, L, step, hist) ==
    [logger |-> id, kv |-> L.name_to_value, excluded |-> L.name_to_excluded,
     step |-> step, hist |-> hist, follows |-> out # NoOut]

\* logger.py 167-169 with name_to_count.clear() left out
ClearTablesKeepCount(L) ==
    [L EXCEPT !.name_to_value = EmptyTable, !.name_to_excluded = EmptyTable]

\* logger.py 167-169: the three tables are cleared
ClearTables(L) ==
    [L EXCEPT !.name_to_value = EmptyTable, !.name_to_count = EmptyTable,
              !.name_to_excluded = EmptyTable]

\* logger.py 140-169 with _logger always the default logger
DumpDefault(step) ==
    /\ ~closed
    /\ raised' = "none"
    /\ IF default_logger.level = DISABLED
       THEN /\ out' = NoOut
            /\ UNCHANGED <<default_logger, rootHist>>
       ELSE /\ out' = Written(0, default_logger, step, rootHist)
            /\ default_logger' = ClearTables(default_logger)
            /\ rootHist' = EmptyTable
    /\ UNCHANGED <<loggers, cached_loggers, current_logger, subdir, closed>>
    /\ UNCHANGED iterVars

\* logger.py 140-169: dump
Dump(step) ==
    /\ ~closed
    /\ raised' = "none"
    /\ IF current_logger # 0
       THEN /\ IF loggers[current_logger].level = DISABLED
               THEN /\ out' = NoOut
                    /\ UNCHANGED loggers
               ELSE /\ out' = Written(current_logger, loggers[current_logger],
                                      step, EmptyTable)
                    /\ loggers' = [loggers EXCEPT ![current_logger] =
                                      ClearTables(@)]
            /\ UNCHANGED <<default_logger, rootHist>>
       ELSE /\ IF default_logger.level = DISABLED
               THEN /\ out' = NoOut
                    /\ UNCHANGED <<default_logger, rootHist>>
               ELSE /\ out' = Written(0, default_logger, step, rootHist)
                    /\ default_logger' = ClearTables(default_logger)
                    /\ rootHist' = EmptyTable
            /\ UNCHANGED loggers
    /\ UNCHANGED <<cached_loggers, current_logger, subdir, closed>>
    /\ UNCHANGED iterVars

\* logger.py 177-178: set_level
SetLevel(level) ==
    /\ ~closed
    /\ raised' = "none"
    /\ out' = NoOut
    /\ default_logger' = [default_logger EXCEPT !.level = level]
    /\ UNCHANGED <<loggers, cached_loggers, current_logger, subdir, closed,
                   rootHist>>
    /\ UNCHANGED iterVars

\* logger.py 183-186: close
CloseLogger ==
    /\ ~closed
    /\ closed' = TRUE
    /\ raised' = "none"
    /\ out' = NoOut
    /\ default_logger' = SbClose(default_logger)
    /\ loggers' = [i \in 1..Len(loggers) |->
                      IF \E n \in DOMAIN cached_loggers : cached_loggers[n] = i
                      THEN SbClose(loggers[i]) ELSE loggers[i]]
    /\ UNCHANGED <<cached_loggers, current_logger, subdir, rootHist>>
    /\ UNCHANGED iterVars

\* the calls of a HierarchicalLogger's user, with arguments from the given sets
LogNextOver(subdirArgs, recordVals, meanVals, excludes) ==
    \/ \E arg \in subdirArgs : Enter(arg) /\ UNCHANGED extVars
    \/ Exit /\ UNCHANGED extVars
    \/ \E key \in Keys, val \in recordVals, exclude \in excludes :
          Record(key, val, exclude) /\ UNCHANGED extVars
    \/ \E key \in Keys, val \in meanVals, exclude \in excludes :
          RecordMean(key, val, exclude) /\ UNCHANGED extVars
    \/ \E step \in Steps : Dump(step) /\ UNCHANGED extVars
    \/ \E level \in Levels : SetLevel(level) /\ UNCHANGED extVars
    \/ CloseLogger /\ UNCHANGED extVars

LogNext == LogNextOver(StrArgs, {1}, MeanValues, {None})

(* ---------------------------- specifications --------------------------- *)

\* no train() call is running
NoTrain == [pc |-> "idle", log_interval |-> 1, log_rollouts |-> FALSE,
            reset_tensorboard |-> FALSE, policy_train |-> FALSE,
            batch_num |-> 0, processed |-> FALSE]

NoTrainHist == [calls |-> 0, step0 |-> 0, dumps |-> <<>>]

\* bc.py 253: tensorboard_step starts at 0
ExtInit ==
    /\ trace = <<>>
    /\ tensorboard_step = 0
    /\ train = NoTrain
    /\ trainHist = NoTrainHist

Init == IterInit /\ LogInit /\ ExtInit

\* the iterator and its consumer
Spec == Init /\ [][IterNext]_vars

\* the logger and its caller: running means at the root, scopes by name
LogSpec == Init /\ [][LogNext]_vars

(* ------------------- a scripted caller of the logger ------------------- *)

\* longest script of calls
MaxTrace == 9

\* the values of the example of the two sessions
RawValues == {10, 20}
\* types.AnyPath: scope x named by a path object (pathlib.Path or bytes)
PathArgs == [form : {"path"}, name : {"x"}]
ScopeArgs == StrArgs \cup PathArgs

\* history: one call, the logger it reached and what that logger wrote
Ev(op, form, name, val, logger, kv) ==
    [op |-> op, form |-> form, name |-> name, val |-> val, logger |-> logger,
     kv |-> kv]

LastOp == IF trace = <<>> THEN "none" ELSE trace[Len(trace)].op

\* with logger.accumulate_means(arg): (not nested)
CallEnter(arg) ==
    /\ Len(trace) < MaxTrace
    /\ UNCHANGED trainVars
    /\ current_logger = 0
    /\ Enter(arg)
    /\ trace' = Append(trace, Ev("enter", arg.form, PathToStr(arg), 0,
                                 current_logger', EmptyTable))

\* the end of the with block
CallExit ==
    /\ Len(trace) < MaxTrace
    /\ UNCHANGED trainVars
    /\ Exit
    /\ trace' = Append(trace, Ev("exit", "", Val(subdir), 0, current_logger,
                                 EmptyTable))

\* logger.record("k", val), not twice in a row
CallRecord(val) ==
    /\ Len(trace) < MaxTrace
    /\ UNCHANGED trainVars
    /\ LastOp \in {"enter", "exit", "dump"}
    /\ Record(<<"k">>, val, None)
    /\ trace' = Append(trace, Ev("record", "",
                                 IF subdir = None THEN "" ELSE Val(subdir),
                                 val, current_logger, EmptyTable))

\* logger.dump(0), not twice in a row
CallDump ==
    /\ Len(trace) < MaxTrace
    /\ UNCHANGED trainVars
    /\ LastOp \in {"enter", "record", "exit"}
    /\ Dump(0)
    /\ trace' = Append(trace, Ev("dump", "",
                                 IF subdir = None THEN "" ELSE Val(subdir),
                                 0, out'.logger, out'.kv))

\* logger.close(), outside the with blocks
CallClose ==
    /\ Len(trace) < MaxTrace
    /\ UNCHANGED trainVars
    /\ trace # <<>>
    /\ current_logger = 0
    /\ CloseLogger
    /\ trace' = Append(trace, Ev("close", "", "", 0, 0, EmptyTable))

CallerNext ==
    \/ \E arg \in ScopeArgs : CallEnter(arg)
    \/ CallExit
    \/ \E val \in RawValues : CallRecord(val)
    \/ CallDump
    \/ CallClose

\* the logger and a caller that works in sessions: enter, record, dump, exit
CallerSpec == Init /\ [][CallerNext]_vars

(* -------------------------------- BC.train ----------------------------- *)

\* most train() calls made on one trainer
MaxCalls == 2

\* the arguments of train() and the data of the loader
TrainEpochArgs == {None, Some(1)}
TrainBatchArgs == {None, Some(3)}
TrainPassLens == {1, 2}
TrainBatchSizes == {2}
LogIntervals == {1, 2, 3}
\* values of the loss of a batch and of the mean return of the rollouts
LossValues == {1, 2}
RolloutReturns == {0}

\* f"bc/{k}"
BcKey(k) == <<"bc", k>>

\* bc.py 453, 460-466, 472: the (key, value) pairs of stats_dict_it,
\* stats_dict_loss and norm_stats_dict, in the order they are recorded
BatchStats(e, loss, n_updates) ==
    << <<BcKey("epoch_num"), e.stats.epoch_num>>,
       <<BcKey("batch_num"), e.stats.batch_num>>,
       <<BcKey("samples_so_far"), e.stats.samples_so_far>>,
       <<BcKey("loss"), loss>>,
       <<BcKey("n_updates"), n_updates>>,
       <<BcKey("batch_size"), e.size>> >>

\* bc.py 472-474: self.logger.record_mean for the first i pairs
RECURSIVE RecordMeanAll(_, _, _)
RecordMeanAll(L, pairs, i) ==
    IF i = 0 THEN L
    ELSE SbRecordMean(RecordMeanAll(L, pairs, i - 1), pairs[i][1], pairs[i][2],
                      None)

\* bc.py 477-479: self.logger.record for the first i pairs
RECURSIVE RecordAll(_, _, _)
RecordAll(L, pairs, i) ==
    IF i = 0 THEN L
    ELSE SbRecord(RecordAll(L, pairs, i - 1), pairs[i][1], pairs[i][2], None)

\* bc.py 477-479 left out: nothing is overwritten before the dump
RecordStatsSkipped(L, pairs) == L

\* bc.py 477-479: the three stats dicts are recorded again before the dump
RecordStats(L, pairs) == RecordAll(L, pairs, Len(pairs))

\* bc.py 484-494: the rollout statistics recorded before a dump
RecordRollouts(L, size, ret) ==
    SbRecord(SbRecord(L, <<"batch_size">>, size, None),
             <<"rollout", "return_mean">>, ret, None)

\* history of the root's record_mean and record calls, for the first i pairs
RECURSIVE HistMeanAll(_, _, _)
HistMeanAll(h, pairs, i) ==
    IF i = 0 THEN h
    ELSE HistMean(HistMeanAll(h, pairs, i - 1), pairs[i][1], pairs[i][2])

\* bc.py 476 with the test made on the step counter
DumpBatchByStep(b, step, interval) == step % interval = 0

\* bc.py 476: batch_num % log_interval == 0
DumpBatch(b, step, interval) == b % interval = 0

\* bc.py 497 done on the batches that dump only
NextStepOnDump(step, dumped) == IF dumped THEN step + 1 ELSE step

\* bc.py 497: self.tensorboard_step += 1
NextStep(step, dumped) == step + 1

\* bc.py 417-427 with the step counter reset before the iterator is made
StepAtCallResetFirst(step, reset_tensorboard, rejected) ==
    IF reset_tensorboard THEN 0 ELSE step

\* bc.py 417-427: tensorboard_step after the first lines of train(): the
\* ValueError of the iterator's __init__ leaves train() before the reset
StepAtCall(step, reset_tensorboard, rejected) ==
    IF rejected THEN step
    ELSE IF reset_tensorboard THEN 0 ELSE step

\* bc.py 377-430: train() is called: the iterator is made (its ValueError
\* leaves train() before anything else), the step counter is reset on
\* request, batch_num starts at 0
TrainCall(n_epochs, n_batches, on_epoch_end, on_batch_end, progress_bar, log_interval, log_rollouts, reset_tensorboard) ==
    /\ train.pc = "idle"
    /\ trainHist.calls < MaxCalls
    /\ ~closed
    /\ current_logger = 0
    /\ Construct(n_epochs, n_batches, on_epoch_end, on_batch_end, progress_bar)
    /\ IF constructed' = "ValueError"
       THEN /\ train' = [train EXCEPT !.pc = "raised",
                                      !.reset_tensorboard = reset_tensorboard]
            /\ trainHist' = [trainHist EXCEPT !.calls = @ + 1,
                                              !.step0 = tensorboard_step,
                                              !.dumps = <<>>]
            /\ tensorboard_step' =
                  StepAtCall(tensorboard_step, reset_tensorboard, TRUE)
       ELSE /\ tensorboard_step' =
                  StepAtCall(tensorboard_step, reset_tensorboard, FALSE)
            /\ train' = [pc |-> "start", log_interval |-> log_interval,
                         log_rollouts |-> log_rollouts,
                         reset_tensorboard |-> reset_tensorboard,
                         policy_train |-> TRUE, batch_num |-> 0,
                         processed |-> FALSE]
            /\ trainHist' = [calls |-> trainHist.calls + 1,
                             step0 |-> tensorboard_step', dumps |-> <<>>]
    /\ UNCHANGED trace

\* bc.py 431: the for statement calls iter(it)
TrainIter ==
    /\ train.pc = "start"
    /\ StartIter
    /\ train' = [train EXCEPT !.pc = "loop"]
    /\ UNCHANGED <<trace, tensorboard_step, trainHist>>

\* bc.py 432-497: the body of the loop for the batch just yielded
TrainBatch(loss, ret) ==
    /\ train.pc = "loop"
    /\ pc = "yielded"
    /\ ~train.processed
    /\ LET e == yielded[Len(yielded)]
           pairs == BatchStats(e, loss, train.batch_num)
           n == Len(pairs)
           dumps == DumpBatch(train.batch_num, tensorboard_step,
                              train.log_interval)
           L1 == RecordMeanAll(default_logger, pairs, n)
           L2 == RecordStats(L1, pairs)
           L3 == IF train.log_rollouts THEN RecordRollouts(L2, e.size, ret)
                 ELSE L2
           h1 == HistMeanAll(rootHist, pairs, n)
       IN  /\ IF ~dumps
              THEN /\ default_logger' = L1
                   /\ rootHist' = h1
                   /\ out' = NoOut
                   /\ UNCHANGED trainHist
              ELSE /\ trainHist' =
                        [trainHist EXCEPT !.dumps =
                            Append(@, [step |-> tensorboard_step,
                                       batch_num |-> train.batch_num])]
                   /\ IF default_logger.level = DISABLED
                      THEN /\ default_logger' = L3
                           /\ rootHist' = h1
                           /\ out' = NoOut
                      ELSE /\ out' = Written(0, L3, tensorboard_step, h1)
                           /\ default_logger' = ClearTables(L3)
                           /\ rootHist' = EmptyTable
           /\ tensorboard_step' = NextStep(tensorboard_step, dumps)
    /\ train' = [train EXCEPT !.batch_num = @ + 1, !.processed = TRUE]
    /\ raised' = "none"
    /\ UNCHANGED <<loggers, cached_loggers, current_logger, subdir, closed>>
    /\ UNCHANGED iterVars
    /\ UNCHANGED trace

\* bc.py 431: the for statement asks the generator for the next pair
TrainResume(raises) ==
    /\ train.pc = "loop"
    /\ train.processed
    /\ AfterYield(raises)
    /\ train' = [train EXCEPT !.processed = FALSE]
    /\ UNCHANGED <<trace, tensorboard_step, trainHist>>

\* bc.py 431: the generator has ended: train() returns, or raises what the
\* generator raised
TrainEnd ==
    /\ train.pc = "loop"
    /\ pc = "ended"
    /\ train' = [train EXCEPT !.pc = IF outcome.type = "return"
                                     THEN "returned" ELSE "raised",
                              !.processed = FALSE]
    /\ UNCHANGED <<trace, tensorboard_step, trainHist>>
    /\ UNCHANGED iterVars
    /\ UNCHANGED logVars

\* the call is over: its locals, the iterator among them, are dropped
TrainDiscard ==
    /\ train.pc \in {"returned", "raised"}
    /\ train' = NoTrain
    /\ constructed' = "no"
    /\ args' = NoArgs
    /\ self' = NoSelf
    /\ pc' = "idle"
    /\ samples_so_far' = 0
    /\ epoch_num' = 0
    /\ batch_num' = 0
    /\ got_data_on_epoch' = FALSE
    /\ display' = NoDisplay
    /\ passLen' = 0
    /\ pulled' = 0
    /\ yielded' = <<>>
    /\ epochEndCalls' = <<>>
    /\ batchEndCalls' = 0
    /\ passes' = <<>>
    /\ outcome' = NoOutcome
    /\ reiterated' = FALSE
    /\ UNCHANGED <<trace, tensorboard_step, trainHist>>
    /\ UNCHANGED logVars

TrainNext ==
    \/ \E ne \in TrainEpochArgs, nb \in TrainBatchArgs, oe \in BOOLEAN,
          ob \in BOOLEAN, li \in LogIntervals, rollouts \in BOOLEAN,
          reset \in BOOLEAN :
          TrainCall(ne, nb, oe, ob, FALSE, li, rollouts, reset)
    \/ TrainIter
    \/ \E len \in TrainPassLens : PassStart(len) /\ UNCHANGED extVars
    \/ \E size \in TrainBatchSizes : PullBatch(size) /\ UNCHANGED extVars
    \/ PullExhausted /\ UNCHANGED extVars
    \/ LoaderRaises /\ UNCHANGED extVars
    \/ \E loss \in LossValues, ret \in RolloutReturns : TrainBatch(loss, ret)
    \/ \E raises \in BOOLEAN : TrainResume(raises)
    \/ \E raises \in BOOLEAN : PassEnd(raises) /\ UNCHANGED extVars
    \/ TrainEnd
    \/ TrainDiscard

\* a trainer, its train() calls and the logger they write to
TrainSpec == Init /\ [][TrainNext]_vars

(* ------------------------------ claims --------------------------------- *)

BatchMode == constructed = "yes" /\ ~self.use_epochs
EpochMode == constructed = "yes" /\ self.use_epochs
Last(q) == q[Len(q)]

RECURSIVE SumSizes(_, _)
\* sum of len(batch["obs"]) over the first i yielded batches
SumSizes(q, i) == IF i = 0 THEN 0 ELSE SumSizes(q, i - 1) + q[i].size

\* every pass of the data loader begun so far has B batches
UniformPasses(B) ==
    /\ \A j \in 1..Len(passes) : passes[j] = B
    /\ yielded # <<>> => passLen = B

\* C1: __init__ succeeds iff exactly one of n_epochs and n_batches is not
\* None; with neither or both it raises ValueError and there is no iterator
\* (nothing is stored on it and it is never iterated).
C1_ExactlyOneBound ==
    /\ constructed # "no" =>
         ((constructed = "yes") <=>
            (IsNone(args.n_epochs) # IsNone(args.n_batches)))
    /\ constructed = "yes" =>
         /\ self.use_epochs = ~IsNone(args.n_epochs)
         /\ self.n_epochs = args.n_epochs
         /\ self.n_batches = args.n_batches
    /\ constructed = "ValueError" =>
         /\ self = NoSelf
         /\ pc = "idle"
         /\ display = NoDisplay
         /\ yielded = <<>>

C1_Witness ==
    /\ constructed = "ValueError"
    /\ ~IsNone(args.n_epochs)
    /\ ~IsNone(args.n_batches)

\* the generator ended although every pass the loader made had a batch, no
\* batch was empty, nothing raised and the consumer did not close it
Exhausted ==
    /\ pc = "ended"
    /\ \A j \in 1..Len(passes) : passes[j] >= 1
    /\ outcome # [type |-> "AssertionError", msg |-> <<>>]
    /\ outcome.type \notin {"LoaderError", "CallbackError", "GeneratorExit"}

\* C2: with n_batches = N >= 1 the yielded stats carry batch_num 1, 2, ... in
\* order, never more than N pairs are yielded, the generator is never again at
\* a place where it pulls from the loader once N pairs were yielded, and an
\* iteration driven to exhaustion over a loader whose passes all have batches,
\* none of them empty, ends by returning after exactly N pairs.
C2_BatchBound ==
    (BatchMode /\ Val(self.n_batches) >= 1) =>
        /\ \A i \in 1..Len(yielded) : yielded[i].stats.batch_num = i
        /\ Len(yielded) <= Val(self.n_batches)
        /\ pc \in {"pass_start", "pull", "pass_end"} =>
              Len(yielded) < Val(self.n_batches)
        /\ Exhausted => outcome.type = "return"
        /\ outcome.type = "return" =>
              /\ Len(yielded) = Val(self.n_batches)
              /\ batch_num = Val(self.n_batches)

\* the bound falls in the middle of the second pass
C2_Witness ==
    /\ BatchMode
    /\ Val(self.n_batches) = 3
    /\ outcome.type = "return"
    /\ Len(yielded) = 3
    /\ Len(passes) = 1
    /\ pulled < passLen

\* C3: with n_epochs = E >= 1 and B >= 1 batches on every pass, every batch of
\* the p-th pass carries epoch_num p-1; an iteration that returns has made E
\* passes, yielded E*B pairs and called on_epoch_end E times; the generator
\* does not begin a pass once epoch_num has reached E.
C3_EpochBound ==
    (EpochMode /\ Val(self.n_epochs) >= 1) =>
        /\ \A B \in 1..MaxPassLen : UniformPasses(B) =>
              /\ \A i \in 1..Len(yielded) :
                    yielded[i].stats.epoch_num = (i - 1) \div B
              /\ outcome.type = "return" =>
                    Len(yielded) = Val(self.n_epochs) * B
        /\ outcome.type = "return" =>
              /\ epoch_num = Val(self.n_epochs)
              /\ Len(passes) = Val(self.n_epochs)
              /\ self.on_epoch_end =>
                    Len(epochEndCalls) = Val(self.n_epochs)
        /\ pc \in {"pass_start", "pull", "yielded", "pass_end"} =>
              epoch_num < Val(self.n_epochs)

C3_Witness ==
    /\ EpochMode
    /\ Val(self.n_epochs) = MaxEpochs
    /\ UniformPasses(MaxPassLen)
    /\ self.on_epoch_end
    /\ outcome.type = "return"
    /\ Len(yielded) = MaxEpochs * MaxPassLen
    /\ Len(epochEndCalls) = MaxEpochs

\* C4: the samples_so_far of every yielded pair is the sum of the sizes of the
\* batches yielded so far, that pair's batch included.
C4_SamplesSoFar ==
    \A i \in 1..Len(yielded) :
        yielded[i].stats.samples_so_far = SumSizes(yielded, i)

\* batches of different sizes on both sides of a pass boundary
C4_Witness ==
    /\ Len(passes) >= 1
    /\ Len(yielded) >= 2
    /\ yielded[1].size # yielded[Len(yielded)].size
    /\ yielded[1].stats.epoch_num # Last(yielded).stats.epoch_num

\* C5: from one yielded pair to the next epoch_num and samples_so_far do not
\* decrease and batch_num goes up by exactly one, also across a pass boundary.
C5_Monotone ==
    \A i \in 1..(Len(yielded) - 1) :
        /\ yielded[i + 1].stats.epoch_num >= yielded[i].stats.epoch_num
        /\ yielded[i + 1].stats.samples_so_far >= yielded[i].stats.samples_so_far
        /\ yielded[i + 1].stats.batch_num = yielded[i].stats.batch_num + 1

\* the first batch of the second pass was yielded
C5_Witness ==
    /\ Len(yielded) >= 2
    /\ Last(yielded).stats.epoch_num = yielded[Len(yielded) - 1].stats.epoch_num + 1
    /\ pulled = 1

\* C6: a pass of zero batches is never passed over: the generator ends right
\* after it with the AssertionError "no data after <batch_num> batches, during
\* epoch <epoch_num>", the pass is not counted in epoch_num, on_epoch_end is
\* not called for it, and the error differs from the empty-batch assertion.
C6_NoDataError ==
    /\ \A j \in 1..(Len(passes) - 1) : passes[j] >= 1
    /\ (passes # <<>> /\ Last(passes) = 0) =>
         /\ pc \in {"pass_end", "ended"}
         /\ epoch_num = Len(passes) - 1
         /\ self.on_epoch_end => Len(epochEndCalls) = Len(passes) - 1
         /\ ~self.on_epoch_end => epochEndCalls = <<>>
         /\ pc = "ended" =>
              /\ outcome = [type |-> "AssertionError",
                            msg |-> <<"no data", Len(yielded), Len(passes) - 1>>]
              /\ outcome # [type |-> "AssertionError", msg |-> <<>>]

\* the loader produces nothing on the second pass of an epoch-bounded iteration
C6_Witness ==
    /\ pc = "ended"
    /\ Len(passes) = 2
    /\ passes[2] = 0
    /\ outcome.type = "AssertionError"
    /\ outcome.msg # <<>>

\* C7: while the generator runs its display is open; once it has ended, in
\* whatever way, close() was called exactly once on the display and neither
\* set_description nor update was called on it after that.
C7_DisplayClosed ==
    /\ pc \in {"pass_start", "pull", "yielded", "pass_end"} =>
         (display.kind # "none" /\ display.closeCalls = 0)
    /\ pc = "ended" =>
         (display.kind # "none" /\ display.closeCalls = 1 /\ outcome.type # "none")
    /\ ~display.late

\* the consumer closed the generator at a yield
C7_Witness ==
    /\ pc = "ended"
    /\ outcome.type = "GeneratorExit"
    /\ display.kind = "tqdm"
    /\ display.closeCalls = 1

\* C8: the first pair yielded by a second (or later) __iter__ call on the same
\* instance has batch_num 1, epoch_num 0 and samples_so_far equal to the size
\* of its batch.
C8_Restart ==
    (reiterated /\ yielded # <<>>) =>
        yielded[1].stats = [epoch_num |-> 0, batch_num |-> 1,
                            samples_so_far |-> yielded[1].size]

C8_Witness ==
    /\ reiterated
    /\ yielded # <<>>
    /\ yielded[1].size = MaxBatchSize

\* C9: a dump() outside any scope gives the root's output formats, for every
\* key that only record_mean wrote since the tables were last cleared, the
\* arithmetic mean of the values recorded, and writes no other key than those
\* written since then; it leaves the three tables of the root empty, so a
\* dump() right after it writes nothing, and a running mean restarts from the
\* next value alone (count 1).
C9_MeanThenClear ==
    /\ out.logger = 0 =>
         /\ DOMAIN out.kv = DOMAIN out.hist
         /\ \A key \in DOMAIN out.hist :
               (out.hist[key].pure /\ out.hist[key].n > 0) =>
                   out.kv[key] = Frac(out.hist[key].sum, out.hist[key].n)
         /\ default_logger.name_to_value = EmptyTable
         /\ default_logger.name_to_count = EmptyTable
         /\ default_logger.name_to_excluded = EmptyTable
         /\ out.follows => out.kv = EmptyTable
    /\ DOMAIN default_logger.name_to_value = DOMAIN rootHist
    /\ DOMAIN default_logger.name_to_excluded = DOMAIN rootHist
    /\ \A key \in DOMAIN rootHist :
          (rootHist[key].pure /\ rootHist[key].n > 0) =>
              /\ default_logger.name_to_count[key] = rootHist[key].n
              /\ default_logger.name_to_value[key] =
                     Frac(rootHist[key].sum, rootHist[key].n)

\* record_mean of three values with sum 9 (1, 3, 5 in some order), then dump()
C9_Witness ==
    /\ out.logger = 0
    /\ <<"k">> \in DOMAIN out.hist
    /\ out.hist[<<"k">>] = [sum |-> 9, n |-> 3, pure |-> TRUE]
    /\ out.kv[<<"k">>] = <<3, 1>>
    /\ default_logger.name_to_value = EmptyTable

\* C10: a call of accumulate_means made while a scope is active, with the
\* name of that scope or with another name, raises RuntimeError and leaves the
\* active scope, its name, the scope loggers and the cache as they were.
C10_NestedRaises ==
    /\ [](raised = "RuntimeError" => (current_logger # 0 /\ subdir # None))
    /\ [][\A arg \in StrArgs :
            (current_logger # 0 /\ Enter(arg)) =>
               /\ raised' = "RuntimeError"
               /\ current_logger' = current_logger
               /\ subdir' = subdir
               /\ loggers' = loggers
               /\ cached_loggers' = cached_loggers]_vars

\* the entry was refused while scope x was active and y had never been entered
C10_Witness ==
    /\ raised = "RuntimeError"
    /\ subdir = Some("x")
    /\ current_logger = 1
    /\ Len(loggers) = 1

\* C11: current_logger and _subdir are set together and cleared together, and
\* while they are set the active sink is the one made for the folder of the
\* active name; an entry refused for nesting leaves both as they were; leaving
\* the context clears both, and a record() made while both are clear goes to
\* the root and to no scope logger.
C11_OneScope ==
    /\ []((current_logger = 0) <=> (subdir = None))
    /\ [](current_logger # 0 =>
            /\ current_logger \in 1..Len(loggers)
            /\ loggers[current_logger].folder = <<"raw", Val(subdir)>>)
    /\ [][\A arg \in StrArgs :
            (current_logger # 0 /\ Enter(arg)) =>
               (current_logger' = current_logger /\ subdir' = subdir)]_vars
    /\ [][Exit => (current_logger' = 0 /\ subdir' = None)]_vars
    /\ [][\A key \in Keys, exclude \in {None} :
            (subdir = None /\ Record(key, 1, exclude)) =>
               /\ loggers' = loggers
               /\ default_logger'.name_to_value[key] = Frac(1, 1)
               /\ default_logger'.name_to_count = default_logger.name_to_count]_vars

\* scope x was left and record() then wrote key k at the root, while the
\* logger of x holds what was recorded inside the scope
C11_Witness ==
    /\ current_logger = 0
    /\ subdir = None
    /\ Len(loggers) = 1
    /\ <<"raw", "x", "k">> \in DOMAIN loggers[1].name_to_value
    /\ <<"k">> \in DOMAIN default_logger.name_to_value
    /\ <<"k">> \in DOMAIN rootHist
    /\ ~rootHist[<<"k">>].pure

\* C12: no two scope loggers are made for one scope name (one folder), and
\* every entry with a name that was entered before makes active the logger
\* that the first entry with that name made.
C12_ProvisionedOnce ==
    /\ \A i, j \in 1..Len(loggers) :
          loggers[i].folder = loggers[j].folder => i = j
    /\ \A i, j \in DOMAIN trace :
          (/\ i < j
           /\ trace[i].op = "enter"
           /\ trace[j].op = "enter"
           /\ trace[i].name = trace[j].name) =>
              trace[j].logger = trace[i].logger

\* the calls of the script, by name
Ops == [i \in DOMAIN trace |-> trace[i].op]

\* the script began with the calls ops
Began(ops) == Len(trace) >= Len(ops) /\ SubSeq(Ops, 1, Len(ops)) = ops

\* what the output formats of scope logger L were given, dump after dump
IsRowOf(e, L) == e.op = "dump" /\ e.logger = L
Received(L) ==
    LET rows == SelectSeq(trace, LAMBDA e : e.op = "dump" /\ e.logger = L)
    IN  [i \in DOMAIN rows |-> rows[i].kv]

\* the name_to_value table of scope logger L after the first i calls: the
\* latest value recorded in its scope since its last dump
RECURSIVE PendingRaw(_, _)
PendingRaw(i, L) ==
    IF i = 0 THEN EmptyTable
    ELSE LET e == trace[i]
         IN  IF e.op = "dump" /\ e.logger = L THEN EmptyTable
             ELSE IF e.op = "record" /\ e.logger = L
                  THEN Put(PendingRaw(i - 1, L), <<"raw", e.name, "k">>,
                           Frac(e.val, 1))
                  ELSE PendingRaw(i - 1, L)

Row(name, val) == Put(EmptyTable, <<"raw", name, "k">>, Frac(val, 1))

\* the two sessions of scope x, recording 10 and then 20, with or without a
\* dump() at the root between them
TwoSessions ==
    /\ \/ Began(<<"enter", "record", "exit", "enter", "record">>)
       \/ Began(<<"enter", "record", "exit", "dump", "enter", "record">>)
    /\ \A i \in 1..6 :
          (i <= Len(trace) /\ trace[i].op = "enter") =>
              (trace[i].form = "str" /\ trace[i].name = "x")
    /\ trace[2].val = 10
    /\ \A i \in 5..6 :
          (i <= Len(trace) /\ trace[i].op = "record") => trace[i].val = 20

TwoDumpedSessions ==
    \/ Began(<<"enter", "record", "dump", "exit", "enter", "record", "dump">>)
    \/ Began(<<"enter", "record", "dump", "exit", "dump", "enter", "record",
               "dump">>)

RECURSIVE ScopeHist(_, _)
ScopeHist(i, name) ==
    IF i = 0 THEN [sum |-> 0, n |-> 0]
    ELSE LET e == trace[i]
             h == ScopeHist(i - 1, name)
         IN  IF e.op = "dump" /\ e.logger = 0 THEN [sum |-> 0, n |-> 0]
             ELSE IF e.op = "record" /\ e.logger >= 1 /\ e.name = name
                  THEN [sum |-> h.sum + e.val, n |-> h.n + 1]
                  ELSE h

\* the sessions of the example are those of scope x, named by a str, and
\* record 10 and then 20
SessionsOfX ==
    /\ \A i \in DOMAIN trace :
          trace[i].op = "enter" =>
              (trace[i].form = "str" /\ trace[i].name = "x")
    /\ trace[2].val = 10
    /\ \A i \in 5..6 : trace[i].op = "record" => trace[i].val = 20

RECURSIVE RootLatest(_)
RootLatest(i) ==
    IF i = 0 THEN EmptyTable
    ELSE LET e == trace[i]
         IN  IF e.op = "dump" /\ e.logger = 0 THEN EmptyTable
             ELSE IF e.op = "record" /\ e.logger = 0
                  THEN Put(RootLatest(i - 1), <<"k">>, Frac(e.val, 1))
                  ELSE RootLatest(i - 1)

\* C15: after every call, each scope logger holds under raw/s/k the latest
\* value recorded inside its scope s (since its last dump) and nothing else,
\* and the root holds under mean/s/k the running mean, with its count, of the
\* values recorded inside scope s and under k the latest value recorded
\* outside every scope (since the root's last dump). A record() inside a
\* scope changes the tables of no other scope logger and not the root's k; a
\* record() outside every scope changes no scope logger and no mean/s/k.
C15_Routing ==
    /\ [](\A L \in 1..Len(loggers) :
            loggers[L].name_to_value = PendingRaw(Len(trace), L))
    /\ [](\A name \in Subdirs :
            LET h == ScopeHist(Len(trace), name)
                key == <<"mean", name, "k">>
            IN  IF h.n = 0
                THEN key \notin DOMAIN default_logger.name_to_value
                ELSE /\ key \in DOMAIN default_logger.name_to_value
                     /\ default_logger.name_to_value[key] = Frac(h.sum, h.n)
                     /\ default_logger.name_to_count[key] = h.n)
    /\ [](\A key \in DOMAIN default_logger.name_to_value :
            \/ key = <<"k">> /\ default_logger.name_to_value[key] =
                                   RootLatest(Len(trace))[key]
            \/ \E name \in Subdirs : key = <<"mean", name, "k">>)
    /\ [](DOMAIN RootLatest(Len(trace)) \subseteq
              DOMAIN default_logger.name_to_value)
    /\ [][\A val \in RawValues :
            CallRecord(val) =>
               IF current_logger # 0
               THEN /\ \A L \in 1..Len(loggers) :
                          L # current_logger => loggers'[L] = loggers[L]
                    /\ loggers'[current_logger].name_to_value[
                           <<"raw", Val(subdir), "k">>] = Frac(val, 1)
                    /\ Get(default_logger'.name_to_value, <<"k">>, None) =
                           Get(default_logger.name_to_value, <<"k">>, None)
               ELSE /\ loggers' = loggers
                    /\ default_logger'.name_to_value[<<"k">>] = Frac(val, 1)
                    /\ \A name \in Subdirs :
                          Get(default_logger'.name_to_value,
                              <<"mean", name, "k">>, None) =
                          Get(default_logger.name_to_value,
                              <<"mean", name, "k">>, None)]_vars

\* 10 and 20 were recorded inside scope x (mean 15 at the root, latest value
\* 20 in the logger of x), then 10 was recorded outside every scope
C15_Witness ==
    /\ Ops = <<"enter", "record", "exit", "enter", "record", "exit", "record">>
    /\ SessionsOfX
    /\ trace[7].val = 10
    /\ loggers[1].name_to_value = Row("x", 20)
    /\ default_logger.name_to_value[<<"mean", "x", "k">>] = <<15, 1>>
    /\ default_logger.name_to_count[<<"mean", "x", "k">>] = 2
    /\ default_logger.name_to_value[<<"k">>] = <<10, 1>>

\* C16: once close() has returned, the root logger and every scope logger that
\* accumulate_means ever made have been closed, each exactly once.
C16_AllClosedOnce ==
    closed =>
        /\ default_logger.closeCalls = 1
        /\ \A L \in 1..Len(loggers) : loggers[L].closeCalls = 1

\* sum and number of the values recorded in the latest context of scope name
\* in the first i calls, and whether the root was dumped since its entry
RECURSIVE ContextHist(_, _)
ContextHist(i, name) ==
    IF i = 0 THEN [sum |-> 0, n |-> 0, dumped |-> FALSE]
    ELSE LET e == trace[i]
             h == ContextHist(i - 1, name)
         IN  IF e.op = "enter" /\ e.name = name
             THEN [sum |-> 0, n |-> 0, dumped |-> FALSE]
             ELSE IF e.op = "record" /\ e.logger >= 1 /\ e.name = name
                  THEN [h EXCEPT !.sum = @ + e.val, !.n = @ + 1]
                  ELSE IF e.op = "dump" /\ e.logger = 0
                       THEN [h EXCEPT !.dumped = TRUE]
                       ELSE h

\* the scope logger that is active after the first i calls, 0 for none
RECURSIVE ActiveAfter(_)
ActiveAfter(i) ==
    IF i = 0 THEN 0
    ELSE IF trace[i].op = "enter" THEN trace[i].logger
         ELSE IF trace[i].op = "exit" THEN 0
              ELSE ActiveAfter(i - 1)

\* dump() writes the value table of the logger that is active at the call and
\* clears the tables of that logger alone: a dump() inside a scope writes what
\* the scope's logger holds, every scope logger holds what was recorded in its
\* scope since its own last dump (a dump() at the root or in another scope
\* clears nothing of it), and the root holds the running means and counts of
\* all values recorded since its own last dump (a dump() inside a scope
\* clears nothing of them)
DumpFrame ==
    /\ \A i \in DOMAIN trace :
          trace[i].op = "dump" =>
              IF ActiveAfter(i - 1) >= 1
              THEN /\ trace[i].logger = ActiveAfter(i - 1)
                   /\ trace[i].kv = PendingRaw(i - 1, trace[i].logger)
              ELSE /\ trace[i].logger = 0
                   /\ \A key \in DOMAIN RootLatest(i - 1) :
                         /\ key \in DOMAIN trace[i].kv
                         /\ trace[i].kv[key] = RootLatest(i - 1)[key]
    /\ \A L \in 1..Len(loggers) :
          /\ loggers[L].name_to_value = PendingRaw(Len(trace), L)
          /\ DOMAIN loggers[L].name_to_excluded =
                 DOMAIN loggers[L].name_to_value
          /\ loggers[L].name_to_count = EmptyTable
    /\ DOMAIN default_logger.name_to_excluded =
           DOMAIN default_logger.name_to_value
    /\ \A name \in Subdirs :
          LET h == ScopeHist(Len(trace), name)
              key == <<"mean", name, "k">>
          IN  Get(default_logger.name_to_count, key, 0) = h.n
    /\ (LastOp = "dump" /\ trace[Len(trace)].logger = 0) =>
           /\ default_logger.name_to_value = EmptyTable
           /\ default_logger.name_to_count = EmptyTable
           /\ default_logger.name_to_excluded = EmptyTable

InTrain ==
    /\ train.pc \in {"start", "loop", "returned", "raised"}
    /\ constructed = "yes"

\* the batches the loop body of the current train() call has processed
Processed ==
    IF pc = "yielded" /\ ~train.processed THEN Len(yielded) - 1
    ELSE Len(yielded)

\* C17: tensorboard_step is the value s0 it had when the loop began plus the
\* number of batches processed since, whatever log_interval is, so a call
\* that processes N batches ends with s0 + N; s0 is 0 when reset_tensorboard
\* is true and the value the previous call left otherwise; every processed
\* batch adds exactly one and nothing else changes the counter.
C17_StepPerBatch ==
    /\ [](InTrain =>
            /\ tensorboard_step = trainHist.step0 + Processed
            /\ train.batch_num = Processed)
    /\ [][\A loss \in LossValues, ret \in RolloutReturns :
            TrainBatch(loss, ret) =>
                tensorboard_step' = tensorboard_step + 1]_vars
    /\ [][\A ne \in TrainEpochArgs, nb \in TrainBatchArgs, oe \in BOOLEAN,
             ob \in BOOLEAN, li \in LogIntervals, rollouts \in BOOLEAN,
             reset \in BOOLEAN :
            (TrainCall(ne, nb, oe, ob, FALSE, li, rollouts, reset)
               /\ constructed' = "yes") =>
                /\ tensorboard_step' = IF reset THEN 0 ELSE tensorboard_step
                /\ trainHist'.step0 = tensorboard_step']_vars
    /\ [][tensorboard_step' # tensorboard_step =>
            (train.pc = "idle" \/ (pc = "yielded" /\ ~train.processed))]_vars

\* the second call, made without reset_tensorboard after a call of two
\* batches, has returned after three batches with log_interval 3
C17_Witness ==
    /\ train.pc = "returned"
    /\ trainHist.calls = 2
    /\ trainHist.step0 = 2
    /\ train.log_interval = 3
    /\ Len(yielded) = 3
    /\ tensorboard_step = 5

\* ceil(a / b)
Ceil(a, b) == (a + b - 1) \div b

\* the batches processed since the last dump of the current call
SinceDump == (train.batch_num - 1) % train.log_interval

\* C18: after N batches of a call the logger has been dumped ceil(N /
\* log_interval) times, the i-th dump on the batch with per-call index
\* (i - 1) * log_interval and at the value the step counter had on that batch
\* (so at strictly increasing steps); the batches processed after the last
\* dump are mean-accumulated at the root and, when train() has ended, were
\* never dumped.
C18_DumpCadence ==
    InTrain =>
        LET dumps == trainHist.dumps
        IN  /\ Len(dumps) = Ceil(train.batch_num, train.log_interval)
            /\ \A i \in DOMAIN dumps :
                  /\ dumps[i].batch_num = (i - 1) * train.log_interval
                  /\ dumps[i].batch_num % train.log_interval = 0
                  /\ dumps[i].step = trainHist.step0 + dumps[i].batch_num
            /\ \A i, j \in DOMAIN dumps :
                  i < j => dumps[i].step < dumps[j].step
            /\ train.batch_num > 0 =>
                  IF SinceDump = 0
                  THEN default_logger.name_to_value = EmptyTable
                  ELSE /\ BcKey("batch_num") \in
                              DOMAIN default_logger.name_to_value
                       /\ default_logger.name_to_count[BcKey("batch_num")] =
                              SinceDump

\* the second call, made without reset_tensorboard after a call of one batch,
\* has returned after three batches with log_interval 2: it dumped on batches
\* 0 and 2, at steps 1 and 3
C18_Witness ==
    /\ train.pc = "returned"
    /\ trainHist.calls = 2
    /\ train.log_interval = 2
    /\ train.batch_num = 3
    /\ trainHist.dumps = <<[step |-> 1, batch_num |-> 0],
                           [step |-> 3, batch_num |-> 2]>>

\* the means, over the n last batches yielded, of the iterator's statistics
MeanOfLast(n, field) ==
    LET from == Len(yielded) - n + 1
        Sum[i \in (from - 1)..Len(yielded)] ==
            IF i < from THEN 0 ELSE Sum[i - 1] + yielded[i].stats[field]
    IN  Frac(Sum[Len(yielded)], n)

\* C20: when the loop body has processed a batch on which it dumps, the dump
\* wrote for every bc/ key the value of that batch (for the loss, one value
\* of a single batch) at the step of that batch; when it has processed a
\* batch on which it does not dump, the root holds for every bc/ key the
\* running mean over the batches since the last dump.
C20_DumpWritesBatchValue ==
    (InTrain /\ pc = "yielded" /\ train.processed) =>
        LET e == yielded[Len(yielded)]
            b == train.batch_num - 1
        IN  IF b % train.log_interval = 0
            THEN /\ out.logger = 0
                 /\ out.step = tensorboard_step - 1
                 /\ out.kv[BcKey("epoch_num")] = Frac(e.stats.epoch_num, 1)
                 /\ out.kv[BcKey("batch_num")] = Frac(e.stats.batch_num, 1)
                 /\ out.kv[BcKey("samples_so_far")] =
                        Frac(e.stats.samples_so_far, 1)
                 /\ out.kv[BcKey("n_updates")] = Frac(b, 1)
                 /\ out.kv[BcKey("batch_size")] = Frac(e.size, 1)
                 /\ \E loss \in LossValues :
                        out.kv[BcKey("loss")] = Frac(loss, 1)
                 /\ default_logger.name_to_value = EmptyTable
            ELSE /\ out = NoOut
                 /\ \A k \in {"epoch_num", "batch_num", "samples_so_far"} :
                       /\ default_logger.name_to_value[BcKey(k)] =
                              MeanOfLast(SinceDump, k)
                       /\ default_logger.name_to_count[BcKey(k)] = SinceDump
                 /\ default_logger.name_to_count[BcKey("loss")] = SinceDump

\* log_interval 2: the third batch of the call (batch_num 3 of the iterator)
\* was mean-accumulated after the second and then dumped: the dump wrote 3,
\* not the mean 5/2
C20_Witness ==
    /\ InTrain
    /\ pc = "yielded"
    /\ train.processed
    /\ train.log_interval = 2
    /\ train.batch_num = 3
    /\ out.logger = 0
    /\ out.kv[BcKey("batch_num")] = <<3, 1>>
    /\ out.hist[BcKey("batch_num")].n = 2
    /\ out.hist[BcKey("batch_num")].sum = 5

\* C21: on_batch_end runs once for every yielded batch when the consumer
\* keeps pulling, the last batch before the bound too: the i-th call is made
\* while the generator stands at the yield of batch i, after the loop body of
\* train() has processed that batch (train's batch_num and tensorboard_step
\* already count it) and in the step that tests the batch bound, and batch
\* i+1 is pulled from the loader only after the i-th call; the number of
\* calls never exceeds the number of batches yielded.
C21_BatchEndOrder ==
    /\ [](batchEndCalls <= Len(yielded))
    /\ [](InTrain /\ self.on_batch_end =>
            /\ pc \in {"pass_start", "pull", "pass_end"} =>
                  batchEndCalls = Len(yielded)
            /\ pc = "yielded" => batchEndCalls = Len(yielded) - 1
            /\ outcome.type \in {"return", "CallbackError"} =>
                  batchEndCalls = Len(yielded))
    /\ [][batchEndCalls' = batchEndCalls + 1 =>
            /\ self.on_batch_end
            /\ pc = "yielded"
            /\ yielded' = yielded
            /\ batchEndCalls' = Len(yielded)
            /\ train.processed
            /\ train.batch_num = Len(yielded)
            /\ tensorboard_step = trainHist.step0 + Len(yielded)
            /\ UNCHANGED <<train.batch_num, tensorboard_step, default_logger>>
            /\ (pc' = "pull" /\ BatchMode) =>
                  batch_num < Val(self.n_batches)]_vars
    /\ [][(Len(yielded') = Len(yielded) + 1 /\ self.on_batch_end) =>
            /\ batchEndCalls = Len(yielded)
            /\ ~train.processed]_vars

\* a batch-bounded call with on_batch_end has returned: three batches were
\* processed and the callback ran three times, the last time for the batch
\* that reached the bound
C21_Witness ==
    /\ InTrain
    /\ BatchMode
    /\ self.on_batch_end
    /\ outcome.type = "return"
    /\ Len(yielded) = 3
    /\ batchEndCalls = 3
    /\ train.batch_num = 3

RECURSIVE SumPasses(_, _)
\* number of batches of the first j passes the loader completed
SumPasses(q, j) == IF j = 0 THEN 0 ELSE SumPasses(q, j - 1) + q[j]

\* the pass the loader completed last has not been counted as an epoch: the
\* generator stands right after the for loop, or that pass had no batch
LastPassUncounted ==
    \/ pc = "pass_end"
    \/ outcome.type = "AssertionError" /\ outcome.msg # <<>>

Max(a, b) == IF a >= b THEN a ELSE b

\* C23: a bound of zero or below does not mean "do nothing": with
\* n_batches <= 0 one batch is yielded and the generator returns at the test
\* after it without pulling again; with n_epochs <= 0 one full pass is
\* yielded, on_epoch_end is called once and the generator returns; a
\* batch-bounded iteration that returns has yielded max(1, n_batches) batches.
C23_NonPositiveBound ==
    /\ (BatchMode /\ Val(self.n_batches) <= 0) =>
          /\ Len(yielded) <= 1
          /\ yielded # <<>> => pc \in {"yielded", "ended"}
          /\ epochEndCalls = <<>>
          /\ Exhausted => outcome.type = "return"
          /\ outcome.type = "return" => (Len(yielded) = 1 /\ batch_num = 1)
    /\ (BatchMode /\ outcome.type = "return") =>
          Len(yielded) = Max(1, Val(self.n_batches))
    /\ (EpochMode /\ Val(self.n_epochs) <= 0) =>
          /\ Len(passes) <= 1
          /\ passes # <<>> => pc \in {"pass_end", "ended"}
          /\ Exhausted => outcome.type = "return"
          /\ outcome.type = "return" =>
                /\ epoch_num = 1
                /\ Len(passes) = 1
                /\ Len(yielded) = passes[1]
                /\ self.on_epoch_end => Len(epochEndCalls) = 1

\* n_batches = 0 and a loader with two batches per pass: one batch was
\* yielded and the generator returned with the second batch never pulled
C23_Witness ==
    /\ BatchMode
    /\ Val(self.n_batches) = 0
    /\ outcome.type = "return"
    /\ Len(yielded) = 1
    /\ passLen = 2
    /\ pulled = 1

\* the running train() call was rejected by the iterator's __init__
Rejected == train.pc = "raised" /\ constructed = "ValueError"

\* C24: a train() call given neither or both of n_epochs and n_batches
\* raises ValueError and leaves the trainer as it was: tensorboard_step keeps
\* its value also with reset_tensorboard true, the policy is not put into
\* training mode, no batch is pulled or processed, and nothing is recorded in
\* or dumped from the logger, neither by the rejected call nor until the
\* next call.
C24_RejectedCallNoEffect ==
    /\ [](train.pc \in {"start", "loop", "returned"} => constructed = "yes")
    /\ [](Rejected =>
            /\ IsNone(args.n_epochs) = IsNone(args.n_batches)
            /\ tensorboard_step = trainHist.step0
            /\ ~train.policy_train
            /\ train.batch_num = 0
            /\ trainHist.dumps = <<>>
            /\ pc = "idle"
            /\ yielded = <<>>
            /\ passes = <<>>
            /\ batchEndCalls = 0
            /\ epochEndCalls = <<>>)
    /\ [][(constructed' = "ValueError" \/ constructed = "ValueError") =>
            /\ UNCHANGED <<tensorboard_step, logVars>>
            /\ yielded' = <<>>
            /\ pc' = "idle"]_vars
    /\ [][\A ne \in TrainEpochArgs, nb \in TrainBatchArgs, oe \in BOOLEAN,
             ob \in BOOLEAN, li \in LogIntervals, rollouts \in BOOLEAN,
             reset \in BOOLEAN :
            (TrainCall(ne, nb, oe, ob, FALSE, li, rollouts, reset)
               /\ IsNone(ne) = IsNone(nb)) => Rejected']_vars

\* the second call, with reset_tensorboard true and both bounds given, was
\* rejected after a call that processed two batches and dumped: the counter
\* still stands at 2 and the root's tables are as the first call left them
C24_Witness ==
    /\ Rejected
    /\ train.reset_tensorboard
    /\ ~IsNone(args.n_epochs)
    /\ ~IsNone(args.n_batches)
    /\ trainHist.calls = 2
    /\ tensorboard_step = 2
    /\ default_logger.name_to_value # EmptyTable

\* the accumulate_means calls of the script
Enters == {i \in DOMAIN trace : trace[i].op = "enter"}

\* C25: reuse of a scope's sink does not depend on the form of the name: for
\* every script of accumulate_means calls, by str or by path object, as many
\* sinks exist as scope names were entered, every session of a scope ran on
\* the sink the cache holds for its name, and inside a scope _subdir is the
\* string form of the name given.
C25_FormIndependent ==
    /\ Len(loggers) = Cardinality({trace[i].name : i \in Enters})
    /\ \A i \in Enters : cached_loggers[trace[i].name] = trace[i].logger
    /\ \A i \in Enters :
          (i = Len(trace) \/ (i < Len(trace) /\ current_logger # 0
                              /\ \A j \in (i + 1)..Len(trace) :
                                    trace[j].op \in {"record", "dump"})) =>
              /\ current_logger = trace[i].logger
              /\ subdir = Some(trace[i].name)

\* the level set by set_level is DISABLED
Disabled == default_logger.level = DISABLED

\* C26: after set_level(DISABLED) every dump(), outside and inside an
\* accumulate scope, writes to no output format and leaves the tables of
\* values, counts and exclusions of every logger as they were, so what was
\* recorded while disabled is still there when the level is raised again.
C26_DisabledDumpNoOp ==
    /\ [](Disabled => out = NoOut)
    /\ [][(Disabled /\ \E step \in Steps : Dump(step)) =>
            /\ out' = NoOut
            /\ UNCHANGED <<default_logger, loggers>>]_vars

====
